---- MODULE Spec2Model ----
(***************************************************************************)
(* A model of the BCCSP-backed membership service provider of              *)
(* msp/mspimpl.go: the provider object (name, admins, trustedCerts,        *)
(* signer), its Setup, its accessors, Validate and DeserializeIdentity.    *)
(*                                                                         *)
(* Byte strings are modelled by what the decoders of the code see in them: *)
(* a byte string is a tuple <<armor, label, derKind, payload>>; pem.Decode *)
(* strips the armor and the label, x509.ParseCertificate and KeyImport     *)
(* look at the DER inside.                                                 *)
(***************************************************************************)
EXTENDS Naturals, Sequences, FiniteSets, TLC

\* ------------------------------------------------------------- bounds
\* Most certificates (admins plus rootCerts) of a configuration.
MaxCerts == 2
\* Wall-clock instants time.Now() can return: 0 .. MaxTime.
MaxTime == 2
\* Concurrent callers of Validate / DeserializeIdentity.
MaxThreads == 2

\* ------------------------------------------------ the certificates
\* A small PKI.  R1 is a self-signed root, I1 an intermediate CA issued by
\* R1 that expires after instant 1, L1 a leaf issued by R1, L2 a leaf issued
\* by I1, L3 a leaf issued by R1 valid at instant 1 only, U1 a leaf issued
\* by R1 whose public key the crypto provider cannot import.
Certs == {"R1", "I1", "L1", "L2", "L3", "U1"}

Issuer(c) == CASE c = "R1" -> "R1"
               [] c = "I1" -> "R1"
               [] c = "L1" -> "R1"
               [] c = "L2" -> "I1"
               [] c = "L3" -> "R1"
               [] OTHER    -> "R1"

IsCA(c) == c \in {"R1", "I1"}

NotBefore(c) == IF c = "L3" THEN 1 ELSE 0

NotAfter(c) == CASE c = "L3" -> 1
                 [] c = "I1" -> 1
                 [] OTHER    -> MaxTime

\* The key pair of a certificate's public key.
CertKey(c) == CASE c = "L1" -> "k1"
                [] c = "L2" -> "k2"
                [] OTHER    -> "k" \o c

Times == 0 .. MaxTime

\* ------------------------------------------------------ byte strings
NilBytes == <<"nil", "", "", "">>
JunkBytes == <<"junk", "", "", "">>
Pem(label, derKind, payload) == <<"pem", label, derKind, payload>>
CertPem(c) == Pem("CERTIFICATE", "cert", c)
KeyPem(k) == Pem("EC PRIVATE KEY", "key", k)
BadDerPem == Pem("CERTIFICATE", "junk", "")

\* A PEM block: its DER bytes; NilBlock is pem.Decode's nil result.
NilBlock == <<"nil", "">>

\* encoding/pem.Decode: the first PEM block of the input, whatever its label.
pemDecode(b) == IF b[1] = "pem" THEN <<b[3], b[4]>> ELSE NilBlock

\* encoding/pem.EncodeToMemory of a block with an empty type.
pemEncode(der) == Pem("", der[1], der[2])

\* crypto/x509.ParseCertificate: the certificate, or "" for an error.
ParseCertificate(der) == IF der[1] = "cert" /\ der[2] \in Certs THEN der[2] ELSE ""

\* cert.Raw: the DER bytes a certificate was parsed from.
Raw(c) == <<"cert", c>>

\* bccsp.KeyImport(cert, X509PublicKeyImportOpts): the key handle, or ""
\* when the provider rejects the certificate's public key.
KeyImportPub(c) == IF c = "U1" THEN "" ELSE CertKey(c)

\* bccsp.KeyImport(der, ECDSAPrivateKeyImportOpts): the key handle, or ""
\* when the bytes are no EC private key.
KeyImportPriv(der) == IF der[1] = "key" THEN der[2] ELSE ""

\* ---------------------------------------------------------- identities
NilId == [kind |-> "nil", mspid |-> "", idid |-> "", cert |-> "", pk |-> ""]

newIdentity(mspid, idid, cert, pk) ==
    [kind |-> "x509", mspid |-> mspid, idid |-> idid, cert |-> cert, pk |-> pk]

NilSigner == [kind |-> "nil", mspid |-> "", idid |-> "", cert |-> "", pk |-> "",
              signerKey |-> ""]

newSigningIdentity(mspid, idid, cert, pk, key) ==
    [kind |-> "x509", mspid |-> mspid, idid |-> idid, cert |-> cert, pk |-> pk,
     signerKey |-> key]

\* ------------------------------------------------ identity factories
\* getIdentityFromConf: the identity of a PEM certificate, or the error of
\* the first step that fails.
getIdentityFromConf(idBytes, mspName) ==
    LET pemCert == pemDecode(idBytes)
        cert    == ParseCertificate(pemCert)
        certPubK == KeyImportPub(cert)
    IN  IF idBytes = NilBytes THEN [err |-> "NilInput", id |-> NilId]
        ELSE IF pemCert = NilBlock THEN [err |-> "PemError", id |-> NilId]
        ELSE IF cert = "" THEN [err |-> "ParseError", id |-> NilId]
        ELSE IF certPubK = "" THEN [err |-> "KeyImportError", id |-> NilId]
        ELSE [err |-> "", id |-> newIdentity(mspName, "IDENTITY", cert, certPubK)]

\* A signingIdentity section of a configuration; NoSid is its absence.
NoSid == [present |-> FALSE, PublicSigner |-> NilBytes, KeyMaterial |-> NilBytes]
Sid(pub, key) == [present |-> TRUE, PublicSigner |-> pub, KeyMaterial |-> key]

\* getSigningIdentityFromConf: err is "" for success, "panic" when the call
\* ends in a run-time panic (pemKey.Bytes on the nil block pem.Decode
\* returns for bytes that are no PEM), the error otherwise.
getSigningIdentityFromConf(sidInfo, mspName) ==
    LET idPub  == getIdentityFromConf(sidInfo.PublicSigner, mspName)
        pemKey == pemDecode(sidInfo.KeyMaterial)
        key    == KeyImportPriv(pemKey)
    IN  IF ~sidInfo.present THEN [err |-> "NilInput", sid |-> NilSigner]
        ELSE IF idPub.err # "" THEN [err |-> idPub.err, sid |-> NilSigner]
        ELSE IF pemKey = NilBlock THEN [err |-> "panic", sid |-> NilSigner]
        ELSE IF key = "" THEN [err |-> "KeyImportError", sid |-> NilSigner]
        ELSE [err |-> "",
              sid |-> newSigningIdentity(mspName, "DEFAULT", idPub.id.cert,
                                         idPub.id.pk, key)]

\* ------------------------------------------------------ configurations
Names == {"org1", "org2"}

\* conf.kind: "nil" is a nil *MSPConfig, "badjson" a Config that
\* json.Unmarshal rejects, "ok" a FabricMSPConfig.
MkConf(kind, n, adm, roots, sid) ==
    [kind |-> kind, Name |-> n, Admins |-> adm, RootCerts |-> roots,
     SigningIdentity |-> sid]

NoConf == MkConf("none", "", <<>>, <<>>, NoSid)

\* The slice make([]Identity, len(list)) filled up to the first entry that
\* getIdentityFromConf rejects: the slots from there on stay nil.
FirstBad(list, mspName) ==
    LET bad == {i \in 1 .. Len(list) : getIdentityFromConf(list[i], mspName).err # ""}
    IN  IF bad = {} THEN Len(list) + 1
        ELSE CHOOSE i \in bad : \A j \in bad : i <= j

FillIdentities(list, mspName) ==
    [i \in 1 .. Len(list) |->
        IF i < FirstBad(list, mspName)
        THEN getIdentityFromConf(list[i], mspName).id
        ELSE NilId]

FillError(list, mspName) ==
    IF FirstBad(list, mspName) > Len(list) THEN ""
    ELSE getIdentityFromConf(list[FirstBad(list, mspName)], mspName).err

\* The provider object.
Provider(n, adm, roots, sg) ==
    [name |-> n, admins |-> adm, trustedCerts |-> roots, signer |-> sg]

\* Setup: the provider after the call and what the call returned ("" is
\* nil, "panic" a run-time panic, anything else the error).
SetupOutcome(msp, conf) ==
    LET adm   == FillIdentities(conf.Admins, conf.Name)
        admE  == FillError(conf.Admins, conf.Name)
        roots == FillIdentities(conf.RootCerts, conf.Name)
        rootE == FillError(conf.RootCerts, conf.Name)
        sid   == getSigningIdentityFromConf(conf.SigningIdentity, conf.Name)
    IN  IF conf.kind = "nil" THEN [msp |-> msp, ret |-> "NilConf"]
        ELSE IF conf.kind = "badjson" THEN [msp |-> msp, ret |-> "UnmarshalError"]
        ELSE IF admE # ""
        THEN [msp |-> Provider(conf.Name, adm, msp.trustedCerts, msp.signer),
              ret |-> admE]
        ELSE IF rootE # ""
        THEN [msp |-> Provider(conf.Name, adm, roots, msp.signer), ret |-> rootE]
        ELSE IF ~conf.SigningIdentity.present
        THEN [msp |-> Provider(conf.Name, adm, roots, msp.signer), ret |-> ""]
        ELSE IF sid.err # ""
        THEN [msp |-> Provider(conf.Name, adm, roots, msp.signer), ret |-> sid.err]
        ELSE [msp |-> Provider(conf.Name, adm, roots, sid.sid), ret |-> ""]

\* ------------------------------------------------------------ Validate
ValidAt(c, t) == NotBefore(c) <= t /\ t <= NotAfter(c)

\* The certificates of an x509.CertPool built from a slice of identities.
PoolOf(ids) == {ids[i].cert : i \in 1 .. Len(ids)}

\* crypto/x509 Certificate.Verify with opts.Roots = pool, no Intermediates
\* and opts.CurrentTime = t: the certificate is valid at t and is itself in
\* the pool, or was issued by a CA certificate of the pool valid at t.
x509Verify(c, pool, t) ==
    /\ ValidAt(c, t)
    /\ \/ c \in pool
       \/ \E r \in pool : r = Issuer(c) /\ IsCA(r) /\ ValidAt(r, t)

\* Validate: "" is nil; "panic" is the failed type assertion
\* v.(*identity) on a nil slot of trustedCerts.
Validate(trusted, id, t) ==
    IF id.kind # "x509" THEN "TypeError"
    ELSE IF \E i \in 1 .. Len(trusted) : trusted[i] = NilId THEN "panic"
    ELSE IF x509Verify(id.cert, PoolOf(trusted), t) THEN ""
    ELSE "TrustError"

\* ------------------------------------------------- the identity codec
\* The wire form of a SerializedIdentity: <<form, Mspid, IdBytes>>.
EmptyEnv == <<"empty", "", NilBytes>>
JunkEnv == <<"junk", "", NilBytes>>
Env(mspid, idBytes) == <<"env", mspid, idBytes>>

\* encoding/asn1.Unmarshal into a SerializedIdentity.
asn1Unmarshal(b) ==
    IF b[1] = "env" THEN [ok |-> TRUE, Mspid |-> b[2], IdBytes |-> b[3]]
    ELSE [ok |-> FALSE, Mspid |-> "", IdBytes |-> NilBytes]

\* identity.Serialize: the ASN.1 record of the provider id and the PEM
\* encoding of the certificate's DER bytes.
Serialize(id) == Env(id.mspid, pemEncode(Raw(id.cert)))

\* DeserializeIdentity without the check of pem.Decode's result.
DeserializeIdentity_NoNilCheck(mspName, serializedID) ==
    LET sId  == asn1Unmarshal(serializedID)
        bl   == pemDecode(sId.IdBytes)
        cert == ParseCertificate(bl)
        pub  == KeyImportPub(cert)
    IN  IF ~sId.ok THEN [err |-> "EnvelopeError", id |-> NilId]
        ELSE IF cert = "" THEN [err |-> "ParseError", id |-> NilId]
        ELSE IF pub = "" THEN [err |-> "KeyImportError", id |-> NilId]
        ELSE [err |-> "", id |-> newIdentity(mspName, "DEFAULT", cert, pub)]

\* DeserializeIdentity accepting only PEM blocks labelled CERTIFICATE.
DeserializeIdentity_StrictLabel(mspName, serializedID) ==
    LET sId  == asn1Unmarshal(serializedID)
        bl   == pemDecode(sId.IdBytes)
        cert == ParseCertificate(bl)
        pub  == KeyImportPub(cert)
    IN  IF ~sId.ok THEN [err |-> "EnvelopeError", id |-> NilId]
        ELSE IF bl = NilBlock \/ sId.IdBytes[2] # "CERTIFICATE"
        THEN [err |-> "PemError", id |-> NilId]
        ELSE IF cert = "" THEN [err |-> "ParseError", id |-> NilId]
        ELSE IF pub = "" THEN [err |-> "KeyImportError", id |-> NilId]
        ELSE [err |-> "", id |-> newIdentity(mspName, "DEFAULT", cert, pub)]

\* DeserializeIdentity: the identity, or the error of the first stage that
\* fails.
DeserializeIdentity(mspName, serializedID) ==
    LET sId  == asn1Unmarshal(serializedID)
        bl   == pemDecode(sId.IdBytes)
        cert == ParseCertificate(bl)
        pub  == KeyImportPub(cert)
    IN  IF ~sId.ok THEN [err |-> "EnvelopeError", id |-> NilId]
        ELSE IF bl = NilBlock THEN [err |-> "PemError", id |-> NilId]
        ELSE IF cert = "" THEN [err |-> "ParseError", id |-> NilId]
        ELSE IF pub = "" THEN [err |-> "KeyImportError", id |-> NilId]
        ELSE [err |-> "", id |-> newIdentity(mspName, "DEFAULT", cert, pub)]

\* ----------------------------------------------------------- accessors
GetType == "FABRIC"

GetIdentifier(mspName) == mspName

GetDefaultSigningIdentity(sg) ==
    IF sg = NilSigner THEN [err |-> "NoSigner", sid |-> NilSigner]
    ELSE [err |-> "", sid |-> sg]

GetSigningIdentity(identifier) == [err |-> "", sid |-> NilSigner]

Reconfig(config) == ""

\* -------------------------------------------------------------- inputs
SeqsUpTo(S, n) == UNION {[1 .. k -> S] : k \in 0 .. n}

AdminInputs == {JunkBytes, CertPem("L1")}
RootInputs == {JunkBytes, CertPem("R1")}

\* k1 is the private key of L1's key pair, k2 that of another pair.
SidInputs ==
    {NoSid, Sid(JunkBytes, KeyPem("k1"))}
        \cup {Sid(CertPem("L1"), k) :
                k \in {KeyPem("k1"), KeyPem("k2"), JunkBytes, BadDerPem}}

NilConf == MkConf("nil", "", <<>>, <<>>, NoSid)
BadJsonConf == MkConf("badjson", "", <<>>, <<>>, NoSid)

\* The configurations of the provider's life cycle.
Confs ==
    {NilConf, BadJsonConf}
        \cup {c \in {MkConf("ok", n, a, r, s) :
                        n \in Names, a \in SeqsUpTo(AdminInputs, MaxCerts),
                        r \in SeqsUpTo(RootInputs, MaxCerts), s \in SidInputs} :
                Len(c.Admins) + Len(c.RootCerts) <= MaxCerts}

\* The configurations of the trust store alone: root lists over a root, an
\* intermediate CA and a malformed entry.
TrustConfs ==
    {MkConf("ok", "org1", <<>>, r, NoSid) :
        r \in SeqsUpTo({JunkBytes, CertPem("R1"), CertPem("I1")}, MaxCerts)}

\* The configurations that only name the provider.
NameConfs == {NilConf} \cup {MkConf("ok", n, <<>>, <<>>, NoSid) : n \in Names}

\* An identity of another implementation of the Identity interface.
OtherId == [kind |-> "other", mspid |-> "org1", idid |-> "DEFAULT", cert |-> "",
            pk |-> ""]

ValidateIds ==
    {newIdentity("org1", "DEFAULT", c, CertKey(c)) : c \in Certs \ {"U1"}}
        \cup {OtherId}

\* PEM certificates under two armor labels.
CertPems == {Pem(l, "cert", c) : l \in {"CERTIFICATE", "X509 CERTIFICATE"}, c \in Certs}

\* The PEM certificates an identity can be built from.
GoodCertPems == {p \in CertPems : getIdentityFromConf(p, "org1").err = ""}

DeserInputs ==
    {EmptyEnv, JunkEnv}
        \cup {Env(n, b) : n \in Names,
                          b \in {JunkBytes, BadDerPem, KeyPem("k1")} \cup CertPems}
        \cup {Serialize(getIdentityFromConf(p, n).id) : p \in GoodCertPems, n \in Names}

Threads == 1 .. MaxThreads

\* --------------------------------------------------------------- state
VARIABLES
    name,          \* msp.name
    admins,        \* msp.admins
    trustedCerts,  \* msp.trustedCerts
    signer,        \* msp.signer
    last,          \* the last completed call: operation, arguments, results
    lastOk,        \* whether a Setup returned nil, and the signingIdentity
                   \* section of the last one that did
    calls          \* the calls in progress of the concurrent callers

vars == <<name, admins, trustedCerts, signer, last, lastOk, calls>>
store == <<name, admins, trustedCerts, signer>>

msp == Provider(name, admins, trustedCerts, signer)

NoCall == [op |-> "none", conf |-> NoConf, id |-> NilId, bytes |-> EmptyEnv,
           time |-> 0, ret |-> "", outId |-> NilId, outSid |-> NilSigner,
           outStr |-> ""]

Idle == [pc |-> "idle", op |-> "none", id |-> NilId, bytes |-> EmptyEnv, time |-> 0,
         i |-> 0, pool |-> {}, sId |-> asn1Unmarshal(EmptyEnv), bl |-> NilBlock,
         cert |-> "", ret |-> "", outId |-> NilId]

\* NewBccspMsp: &bccspmsp{} with the crypto provider set.
Init ==
    /\ name = ""
    /\ admins = <<>>
    /\ trustedCerts = <<>>
    /\ signer = NilSigner
    /\ last = NoCall
    /\ lastOk = [done |-> FALSE, sid |-> NoSid]
    /\ calls = [t \in Threads |-> Idle]

AllIdle == \A t \in Threads : calls[t].pc = "idle"

\* ------------------------------------------------- calls, one at a time
\* Setup runs single-threaded, during initialization.
SetupCall(conf) ==
    \E o \in {SetupOutcome(msp, conf)} :
        /\ AllIdle
        /\ name' = o.msp.name
        /\ admins' = o.msp.admins
        /\ trustedCerts' = o.msp.trustedCerts
        /\ signer' = o.msp.signer
        /\ last' = [NoCall EXCEPT !.op = "Setup", !.conf = conf, !.ret = o.ret]
        /\ lastOk' = IF o.ret = "" THEN [done |-> TRUE, sid |-> conf.SigningIdentity]
                      ELSE lastOk
        /\ UNCHANGED calls

ReconfigCall ==
    /\ last' = [NoCall EXCEPT !.op = "Reconfig", !.ret = Reconfig(JunkBytes)]
    /\ UNCHANGED <<store, lastOk, calls>>

GetTypeCall ==
    /\ last' = [NoCall EXCEPT !.op = "GetType", !.outStr = GetType]
    /\ UNCHANGED <<store, lastOk, calls>>

GetIdentifierCall ==
    /\ last' = [NoCall EXCEPT !.op = "GetIdentifier", !.outStr = GetIdentifier(name)]
    /\ UNCHANGED <<store, lastOk, calls>>

GetDefaultSigningIdentityCall ==
    \E o \in {GetDefaultSigningIdentity(signer)} :
        /\ last' = [NoCall EXCEPT !.op = "GetDefaultSigningIdentity",
                                  !.ret = o.err, !.outSid = o.sid]
        /\ UNCHANGED <<store, lastOk, calls>>

GetSigningIdentityCall ==
    \E o \in {GetSigningIdentity("DEFAULT")} :
        /\ last' = [NoCall EXCEPT !.op = "GetSigningIdentity",
                                  !.ret = o.err, !.outSid = o.sid]
        /\ UNCHANGED <<store, lastOk, calls>>

ValidateCall(id, t) ==
    /\ last' = [NoCall EXCEPT !.op = "Validate", !.id = id, !.time = t,
                              !.ret = Validate(trustedCerts, id, t)]
    /\ UNCHANGED <<store, lastOk, calls>>

DeserializeCall(b) ==
    \E o \in {DeserializeIdentity(name, b)} :
        /\ last' = [NoCall EXCEPT !.op = "Deserialize", !.bytes = b,
                                  !.ret = o.err, !.outId = o.id]
        /\ UNCHANGED <<store, lastOk, calls>>

Accessors ==
    \/ ReconfigCall
    \/ GetTypeCall
    \/ GetIdentifierCall
    \/ GetDefaultSigningIdentityCall
    \/ GetSigningIdentityCall

\* The provider's life cycle: Setup and the accessors.
Next ==
    \/ \E conf \in Confs : SetupCall(conf)
    \/ Accessors

Spec == Init /\ [][Next]_vars

\* The trust validator over the configurations of the trust store.
NextTrust ==
    \/ \E conf \in TrustConfs : SetupCall(conf)
    \/ \E id \in ValidateIds, t \in Times : ValidateCall(id, t)

SpecTrust == Init /\ [][NextTrust]_vars

\* The identity codec of a named provider.
NextCodec ==
    \/ \E conf \in NameConfs : SetupCall(conf)
    \/ \E b \in DeserInputs : DeserializeCall(b)

SpecCodec == Init /\ [][NextCodec]_vars

\* ------------------------------------------------- concurrent callers
\* Validate and DeserializeIdentity take no lock: a call is a sequence of
\* steps, each reading the provider, and the steps of the callers
\* interleave.  calls[t].pc is the position of caller t in its call.
ConcConfs ==
    {MkConf("ok", "org1", <<>>, <<CertPem("R1")>>, NoSid),
     MkConf("ok", "org2", <<>>, <<CertPem("R1"), CertPem("I1")>>,
            Sid(CertPem("L1"), KeyPem("k1"))),
     MkConf("ok", "org1", <<>>, <<CertPem("R1"), JunkBytes>>, NoSid)}

ConcIds == {newIdentity("org1", "DEFAULT", "L2", CertKey("L2")), OtherId}
ConcTimes == {0, MaxTime}
ConcBytes == {EmptyEnv, Env("org1", JunkBytes), Env("org1", CertPem("L1"))}

Done(c, ret, outId) == [c EXCEPT !.pc = "done", !.ret = ret, !.outId = outId]

\* Validate, lines 238-248: the type switch, opts.Roots and opts.CurrentTime.
ValidateBegin(t, id, now) ==
    /\ calls[t].pc = "idle"
    /\ calls' = [calls EXCEPT ![t] =
                    IF id.kind # "x509"
                    THEN Done([Idle EXCEPT !.op = "Validate", !.id = id,
                                           !.time = now], "TypeError", NilId)
                    ELSE [Idle EXCEPT !.pc = "v_loop", !.op = "Validate",
                                      !.id = id, !.time = now, !.i = 1]]
    /\ UNCHANGED <<store, last, lastOk>>

\* Validate, lines 250-252: one turn of the loop over msp.trustedCerts.
ValidateAddCert(t) ==
    /\ calls[t].pc = "v_loop"
    /\ calls[t].i <= Len(trustedCerts)
    /\ calls' = [calls EXCEPT ![t] =
                    IF trustedCerts[@.i] = NilId THEN Done(@, "panic", NilId)
                    ELSE [@ EXCEPT !.pool = @ \cup {trustedCerts[calls[t].i].cert},
                                   !.i = @ + 1]]
    /\ UNCHANGED <<store, last, lastOk>>

\* Validate, lines 254-259: cert.Verify(opts) and the return.
ValidateVerify(t) ==
    /\ calls[t].pc = "v_loop"
    /\ calls[t].i > Len(trustedCerts)
    /\ calls' = [calls EXCEPT ![t] =
                    Done(@, IF x509Verify(@.id.cert, @.pool, @.time) THEN ""
                            ELSE "TrustError", NilId)]
    /\ UNCHANGED <<store, last, lastOk>>

DeserializeBegin(t, b) ==
    /\ calls[t].pc = "idle"
    /\ calls' = [calls EXCEPT ![t] =
                    [Idle EXCEPT !.pc = "d_unmarshal", !.op = "Deserialize",
                                 !.bytes = b]]
    /\ UNCHANGED <<store, last, lastOk>>

\* DeserializeIdentity, lines 278-282.
DeserializeUnmarshal(t) ==
    /\ calls[t].pc = "d_unmarshal"
    /\ calls' = [calls EXCEPT ![t] =
                    IF ~asn1Unmarshal(@.bytes).ok THEN Done(@, "EnvelopeError", NilId)
                    ELSE [@ EXCEPT !.pc = "d_pem", !.sId = asn1Unmarshal(calls[t].bytes)]]
    /\ UNCHANGED <<store, last, lastOk>>

\* DeserializeIdentity, lines 285-288.
DeserializePem(t) ==
    /\ calls[t].pc = "d_pem"
    /\ calls' = [calls EXCEPT ![t] =
                    IF pemDecode(@.sId.IdBytes) = NilBlock THEN Done(@, "PemError", NilId)
                    ELSE [@ EXCEPT !.pc = "d_parse",
                                   !.bl = pemDecode(calls[t].sId.IdBytes)]]
    /\ UNCHANGED <<store, last, lastOk>>

\* DeserializeIdentity, lines 289-292.
DeserializeParse(t) ==
    /\ calls[t].pc = "d_parse"
    /\ calls' = [calls EXCEPT ![t] =
                    IF ParseCertificate(@.bl) = "" THEN Done(@, "ParseError", NilId)
                    ELSE [@ EXCEPT !.pc = "d_import",
                                   !.cert = ParseCertificate(calls[t].bl)]]
    /\ UNCHANGED <<store, last, lastOk>>

\* DeserializeImport adopting the envelope's provider id as msp.name.
DeserializeImport_SetsName(t) ==
    /\ calls[t].pc = "d_import"
    /\ calls' = [calls EXCEPT ![t] =
                    IF KeyImportPub(@.cert) = "" THEN Done(@, "KeyImportError", NilId)
                    ELSE Done(@, "", newIdentity(name, "DEFAULT", @.cert,
                                                 KeyImportPub(@.cert)))]
    /\ name' = calls[t].sId.Mspid
    /\ UNCHANGED <<admins, trustedCerts, signer, last, lastOk>>

\* DeserializeIdentity, lines 304-312: msp.name is read here.
DeserializeImport(t) ==
    /\ calls[t].pc = "d_import"
    /\ calls' = [calls EXCEPT ![t] =
                    IF KeyImportPub(@.cert) = "" THEN Done(@, "KeyImportError", NilId)
                    ELSE Done(@, "", newIdentity(name, "DEFAULT", @.cert,
                                                 KeyImportPub(@.cert)))]
    /\ UNCHANGED <<store, last, lastOk>>

\* The accessors and Reconfig, called by a concurrent caller.
AccessorStep(t, op) ==
    /\ calls[t].pc = "idle"
    /\ calls' = [calls EXCEPT ![t] =
                    Done([Idle EXCEPT !.op = op],
                         CASE op = "GetDefaultSigningIdentity" ->
                                  GetDefaultSigningIdentity(signer).err
                           [] op = "GetSigningIdentity" -> GetSigningIdentity("DEFAULT").err
                           [] op = "GetIdentifier" -> GetIdentifier(name)
                           [] op = "GetType" -> GetType
                           [] OTHER -> Reconfig(JunkBytes),
                         NilId)]
    /\ UNCHANGED <<store, last, lastOk>>

AccessorOps == {"GetDefaultSigningIdentity", "GetSigningIdentity", "GetIdentifier",
                "GetType", "Reconfig"}

\* The caller takes its result.
Return(t) ==
    /\ calls[t].pc = "done"
    /\ calls' = [calls EXCEPT ![t] = Idle]
    /\ UNCHANGED <<store, last, lastOk>>

NextConc ==
    \/ \E conf \in ConcConfs : SetupCall(conf)
    \/ \E t \in Threads, id \in ConcIds, now \in ConcTimes : ValidateBegin(t, id, now)
    \/ \E t \in Threads : ValidateAddCert(t)
    \/ \E t \in Threads : ValidateVerify(t)
    \/ \E t \in Threads, b \in ConcBytes : DeserializeBegin(t, b)
    \/ \E t \in Threads : DeserializeUnmarshal(t)
    \/ \E t \in Threads : DeserializePem(t)
    \/ \E t \in Threads : DeserializeParse(t)
    \/ \E t \in Threads : DeserializeImport(t)
    \/ \E t \in Threads, op \in AccessorOps : AccessorStep(t, op)
    \/ \E t \in Threads : Return(t)

SpecConc == Init /\ [][NextConc]_vars

\* ====================================================== the properties
\* Helpers of the properties: they read the inputs, not the code's
\* decoders.
IsPem(b) == b[1] = "pem"
IsCertPem(b) == IsPem(b) /\ b[3] = "cert" /\ b[4] \in Certs
Entries(list) == {list[i] : i \in 1 .. Len(list)}
HasMalformed(conf) ==
    /\ conf.kind = "ok"
    /\ \E b \in Entries(conf.Admins) \cup Entries(conf.RootCerts) : ~IsPem(b)

\* The identities a slice holds: its slots that are not nil.
Held(ids) == {i \in 1 .. Len(ids) : ids[i] # NilId}

SetupFailed == last.op = "Setup" /\ last.ret # ""

\* C1: a Setup whose admins or rootCerts list holds a malformed PEM entry
\* returns an error and leaves the provider with no trusted root and no
\* admin.
C1_SetupAtomic ==
    (last.op = "Setup" /\ HasMalformed(last.conf)) =>
        /\ last.ret \notin {"", "panic"}
        /\ Held(trustedCerts) = {}
        /\ Held(admins) = {}

\* The roots the provider is configured with.
RootSet == {trustedCerts[i].cert : i \in Held(trustedCerts)}

\* c chains to a root, directly or through its issuers, every certificate
\* on the way being valid at t.
RECURSIVE ChainsTo(_, _, _, _)
ChainsTo(c, roots, t, n) ==
    /\ NotBefore(c) <= t
    /\ t <= NotAfter(c)
    /\ \/ c \in roots
       \/ n > 0 /\ Issuer(c) # c /\ ChainsTo(Issuer(c), roots, t, n - 1)

\* C2: Validate of a certificate-backed identity returns nil exactly when
\* the certificate chains, directly or transitively, to a configured root
\* with every certificate of the chain valid at call time, and a trust
\* error in every other case.
C2_ValidateIffChains ==
    (last.op = "Validate" /\ last.id.kind = "x509") =>
        /\ last.ret = ""
              <=> ChainsTo(last.id.cert, RootSet, last.time, Cardinality(Certs))
        /\ last.ret \in {"", "TrustError"}

\* C3: GetDefaultSigningIdentity fails when no Setup has succeeded or the
\* last successful Setup had no signingIdentity section; otherwise it
\* returns the identity whose public key is that of the section's
\* publicSigner certificate.
C3_DefaultSigner ==
    last.op = "GetDefaultSigningIdentity" =>
        IF ~lastOk.done \/ ~lastOk.sid.present
        THEN last.ret = "NoSigner" /\ last.outSid = NilSigner
        ELSE /\ last.ret = ""
             /\ IsCertPem(lastOk.sid.PublicSigner)
             /\ last.outSid.pk = CertKey(lastOk.sid.PublicSigner[4])

\* The last call was a Setup with well-formed admins and roots, a valid
\* publicSigner and private-key material that is no PEM.
C4Case ==
    /\ last.op = "Setup"
    /\ last.conf.kind = "ok"
    /\ \A b \in Entries(last.conf.Admins) \cup Entries(last.conf.RootCerts) :
          IsCertPem(b) /\ b[4] # "U1"
    /\ last.conf.SigningIdentity.present
    /\ IsCertPem(last.conf.SigningIdentity.PublicSigner)
    /\ ~IsPem(last.conf.SigningIdentity.KeyMaterial)

\* C4: a Setup whose signingIdentity has a valid publicSigner and private
\* key material that is no PEM returns a decode error and sets no signer.
C4_BadKeyPemIsError ==
    [][C4Case' => (last'.ret = "PemError" /\ signer' = signer)]_vars

\* C8: a Setup that returns an error leaves the provider as it was: the
\* same name, the same answer of GetDefaultSigningIdentity, the same
\* life-cycle state.
C8_FailedSetupKeepsState ==
    [][SetupFailed' =>
          /\ GetIdentifier(name') = GetIdentifier(name)
          /\ GetDefaultSigningIdentity(signer') = GetDefaultSigningIdentity(signer)
          /\ lastOk'.done = lastOk.done]_vars

\* C9: the private key of the default signing identity belongs to the key
\* pair of its certificate's public key (a key handle is named by its pair).
C9_SignerKeyPair == signer # NilSigner => signer.signerKey = signer.pk

\* C10: every slot of trustedCerts and of admins holds an identity, and
\* Validate ends with nil or an error, never with a panic.
C10_NoNilSlots ==
    /\ Held(trustedCerts) = 1 .. Len(trustedCerts)
    /\ Held(admins) = 1 .. Len(admins)
    /\ last.op = "Validate" => last.ret # "panic"

\* C5: deserializing the serialized form of the identity built from a valid
\* PEM certificate C succeeds and yields an identity whose certificate has
\* C's DER bytes and whose public key is the one of that certificate.
C5_RoundTrip ==
    \A p \in GoodCertPems, n \in Names :
        (last.op = "Deserialize"
            /\ last.bytes = Serialize(getIdentityFromConf(p, n).id)) =>
            /\ last.ret = ""
            /\ last.outId.kind = "x509"
            /\ Raw(last.outId.cert) = <<p[3], p[4]>>
            /\ last.outId.pk = CertKey(p[4])

C5_Witness ==
    \E p \in GoodCertPems, n \in Names :
        /\ p[2] = "X509 CERTIFICATE"
        /\ n # name
        /\ last.op = "Deserialize"
        /\ last.bytes = Serialize(getIdentityFromConf(p, n).id)
        /\ last.outId.cert = p[4]

\* C6: DeserializeIdentity checks the envelope, the PEM armor, the
\* certificate and the public-key import in this order, returns the error
\* of the first stage that fails with no identity, and returns an identity
\* only when the four stages succeed.
C6_StagesInOrder ==
    last.op = "Deserialize" =>
        LET b == last.bytes
        IN  /\ last.ret =
                  IF b[1] # "env" THEN "EnvelopeError"
                  ELSE IF ~IsPem(b[3]) THEN "PemError"
                  ELSE IF ~IsCertPem(b[3]) THEN "ParseError"
                  ELSE IF b[3][4] = "U1" THEN "KeyImportError"
                  ELSE ""
            /\ (last.outId # NilId) <=> (last.ret = "")
            /\ last.ret = "" =>
                  /\ b[1] = "env"
                  /\ IsCertPem(b[3])
                  /\ last.outId.cert = b[3][4]
                  /\ last.outId.pk = CertKey(b[3][4])

C6_Witness ==
    /\ last.op = "Deserialize"
    /\ last.bytes = Env("org1", JunkBytes)
    /\ last.ret = "PemError"
    /\ last.outId = NilId

\* What a completed call of caller t returns when it runs alone on the
\* provider as it is.
ResultAlone(t) ==
    LET c == calls[t]
    IN  CASE c.op = "Validate" ->
                 c.ret = Validate(trustedCerts, c.id, c.time) /\ c.outId = NilId
          [] c.op = "Deserialize" ->
                 /\ c.ret = DeserializeIdentity(name, c.bytes).err
                 /\ c.outId = DeserializeIdentity(name, c.bytes).id
          [] c.op = "GetDefaultSigningIdentity" ->
                 c.ret = (IF signer = NilSigner THEN "NoSigner" ELSE "")
          [] c.op = "GetIdentifier" -> c.ret = name
          [] c.op = "GetType" -> c.ret = "FABRIC"
          [] OTHER -> c.ret = ""

====
